---- MODULE Spec2Model ----
(***************************************************************************)
(* Model of darim's AuthService (server/src/services/auth.rs): login,      *)
(* refresh_user_session, set_sign_up_token and set_password_token, with    *)
(* the stores, the session context, the password utility and the email     *)
(* sender it calls.                                                        *)
(*                                                                         *)
(* Strings are sequences of one-character strings.  Option<T> is a tuple   *)
(* of length 0 (None) or 1 (Some).  Result<T, E> is a record               *)
(* [ok, value, err].  Every call a handler makes on a collaborator is      *)
(* appended to the log of the call in progress (variable calls).           *)
(***************************************************************************)
EXTENDS Integers, Sequences, FiniteSets, TLC

\* ------------------------------------------------------------------ bounds
\* Seeds of the thread-local random generator a call may start from: 0..MaxSeed.
MaxSeed == 1
\* Most tokens the two token stores hold together before a call that would
\* add one is left out.
MaxSaved == 1

\* ---------------------------------------------------------- program constants
PinLen == 8
TokenIdLen == 32
TokenPasswordLen == 512

\* ------------------------------------------------------------------ Option
None == <<>>
Some(x) == <<x>>
IsSome(o) == Len(o) = 1
IsNone(o) == Len(o) = 0
Unwrap(o) == o[1]

\* Mutant: the fallback is built whether or not the field is empty.
some_if_true_always(cond, x) == Some(x)

\* some_if_true!(cond => expr)
some_if_true(cond, x) == IF cond THEN Some(x) ELSE None

\* ------------------------------------------------------------ ServiceError
InvalidArgument == [kind |-> "InvalidArgument", key |-> ""]
InvalidFormat == [kind |-> "InvalidFormat", key |-> ""]
Unauthorized == [kind |-> "Unauthorized", key |-> ""]
NotFound(k) == [kind |-> "NotFound", key |-> k]
\* Any other failure of a store (connection, query, ...).
StoreError == [kind |-> "StoreError", key |-> ""]
\* A failure of the email sender.
SendError == [kind |-> "SendError", key |-> ""]
NoError == [kind |-> "", key |-> ""]

Ok(v) == [ok |-> TRUE, value |-> Some(v), err |-> NoError]
Err(e) == [ok |-> FALSE, value |-> None, err |-> e]

\* get_service_error logs the error and hands it back.
get_service_error(e) == e

\* ------------------------------------------------------------------ strings
Whitespace == {" ", "\t", "\n"}

RECURSIVE trim_start(_)
trim_start(s) ==
    IF s = <<>> THEN <<>>
    ELSE IF Head(s) \in Whitespace THEN trim_start(Tail(s)) ELSE s

RECURSIVE trim_end(_)
trim_end(s) ==
    IF s = <<>> THEN <<>>
    ELSE IF s[Len(s)] \in Whitespace THEN trim_end(SubSeq(s, 1, Len(s) - 1)) ELSE s

\* str::trim
trim(s) == trim_end(trim_start(s))

\* str::is_empty
is_empty(s) == Len(s) = 0

\* ------------------------------------------------------------ random source
\* rand::distributions::Alphanumeric draws uniformly from these 62 characters.
GEN_ASCII_STR_CHARSET ==
    << "A", "B", "C", "D", "E", "F", "G", "H", "I", "J", "K", "L", "M",
       "N", "O", "P", "Q", "R", "S", "T", "U", "V", "W", "X", "Y", "Z",
       "a", "b", "c", "d", "e", "f", "g", "h", "i", "j", "k", "l", "m",
       "n", "o", "p", "q", "r", "s", "t", "u", "v", "w", "x", "y", "z",
       "0", "1", "2", "3", "4", "5", "6", "7", "8", "9" >>

\* The i-th draw (i = 1, 2, ...) of the generator started from seed.
Draw(seed, i) == ((seed * 37) + (i * 17) + (i \div 62)) % 62

\* thread_rng().sample_iter(&Alphanumeric): the i-th character of the stream.
sample_iter(seed, i) == GEN_ASCII_STR_CHARSET[Draw(seed, i) + 1]

\* .skip(from).take(n).collect::<String>()
take(seed, from, n) == [i \in 1..n |-> sample_iter(seed, from + i)]

Seeds == 0..MaxSeed

\* ------------------------------------------------------------- input domains
EmailA == <<"a">>
EmailB == <<"b">>
EmailMissing == <<"m">>
Emails == {EmailA, EmailB, EmailMissing}
Passwords == {<<"p">>, <<"q">>}
UserNames == {<<"n">>, <<"o">>}
AvatarUrls == {None, Some(<<"u">>)}
UserIds == {1, 2}
\* Arguments of set_sign_up_token: empty, whitespace-only and padded strings too.
TextArgs == {<<>>, <<" ", "\t">>, <<" ", "x", " ">>}
SignUpEmails == {<<>>, <<"\n">>, EmailA}
SignUpPasswords == {<<" ">>, <<"p">>}
\* What a token store's save and the email sender's send may answer.
SaveOutcomes == {"saved", "refused", "error"}
SendOutcomes == {"sent", "unsent", "error"}

\* ------------------------------------------------------------ password_util
\* get_hashed_password: a digest that differs from the plaintext.
get_hashed_password(password) == <<"$", "2", "b", "$">> \o password

\* check_password(password, hashed): does the password verify against the hash?
check_password(password, hashed) == hashed = get_hashed_password(password)

\* ------------------------------------------------------------------- stores
\* The log entry of one call on a collaborator.
Call(target, method, handle, input, output) ==
    [target |-> target, method |-> method, handle |-> handle,
     input |-> input, output |-> output]

NoHandle == [kind |-> "none", scope |-> 0]
\* UserRepository::new(), UserKeyRepository::new(), SignUpTokenRepository::new()
DefaultRepository == [kind |-> "default", scope |-> 0]
\* PasswordTokenRepository::new(user_id)
PasswordTokenRepository_new(user_id) == [kind |-> "default", scope |-> user_id]
\* A repository handed to new_with_repository.
SuppliedRepository == [kind |-> "supplied", scope |-> 0]

\* UserRepository::find_password_by_email
find_password_by_email(store, email, fault) ==
    IF fault THEN Err(StoreError)
    ELSE IF \E u \in store : u.email = email
         THEN Ok((CHOOSE u \in store : u.email = email).password)
         ELSE Err(NotFound("user"))

\* UserRepository::find_by_email
find_by_email(store, email, fault) ==
    IF fault THEN Err(StoreError)
    ELSE IF \E u \in store : u.email = email
         THEN Ok(CHOOSE u \in store : u.email = email)
         ELSE Err(NotFound("user"))

\* UserRepository::find_by_id
find_by_id(store, id, fault) ==
    IF fault THEN Err(StoreError)
    ELSE IF \E u \in store : u.id = id
         THEN Ok(CHOOSE u \in store : u.id = id)
         ELSE Err(NotFound("user"))

\* UserKeyRepository::find_by_user_id
find_by_user_id(store, user_id, fault) ==
    IF fault THEN Err(StoreError)
    ELSE IF \E k \in store : k.user_id = user_id
         THEN Ok(CHOOSE k \in store : k.user_id = user_id)
         ELSE Err(NotFound("user_key"))

\* SignUpTokenRepository::save / PasswordTokenRepository::save: the answer.
save(outcome) ==
    CASE outcome = "saved" -> Ok(TRUE)
      [] outcome = "refused" -> Ok(FALSE)
      [] OTHER -> Err(StoreError)

\* What the token store holds after save answered.
saved(store, entry, outcome) ==
    IF outcome = "saved" THEN store \cup {entry} ELSE store

\* serde_json::to_string of a struct of strings: always Ok.
to_string(token) == Ok([json |-> token])

\* email_util::send_email: the answer.
send_email(outcome) ==
    CASE outcome = "sent" -> Ok(TRUE)
      [] outcome = "unsent" -> Ok(FALSE)
      [] OTHER -> Err(SendError)

\* session_util::get_session
get_session(ctx) == ctx

\* session_util::set_session
set_session(ctx, user_id, user_email, user_name, user_public_key, user_avatar_url) ==
    Some([user_id |-> user_id, user_email |-> user_email, user_name |-> user_name,
          user_public_key |-> user_public_key, user_avatar_url |-> user_avatar_url])

\* -------------------------------------------------------------- AuthService
\* AuthService::new
new == [sign_up_token_repository |-> None, password_token_repository |-> None,
        user_key_repository |-> None, user_repository |-> None]

\* AuthService::new_with_repository
new_with_repository(s, p, k, u) ==
    [sign_up_token_repository |-> Some(s), password_token_repository |-> Some(p),
     user_key_repository |-> Some(k), user_repository |-> Some(u)]

\* The four accessors: the field after the call (the handle returned is its
\* content).
sign_up_token_repository(field, new_repository) ==
    IF IsSome(new_repository) THEN new_repository ELSE field

password_token_repository(field, new_repository) ==
    IF IsSome(new_repository) THEN new_repository ELSE field

user_key_repository(field, new_repository) ==
    IF IsSome(new_repository) THEN new_repository ELSE field

user_repository(field, new_repository) ==
    IF IsSome(new_repository) THEN new_repository ELSE field

\* The log of a fallback construction, if there was one.
Constructed(target, fallback_repository) ==
    IF IsSome(fallback_repository)
    THEN << Call(target, "new", Unwrap(fallback_repository), <<>>, Ok(TRUE)) >>
    ELSE <<>>

\* What a handler leaves behind: its return value, the service's fields and
\* the log of the calls it made.
Outcome(result, self, log) == [result |-> result, self |-> self, calls |-> log]

\* Mutant: a lookup that finds nothing is reported as Unauthorized.
propagate_remapped(err) == IF err.kind = "NotFound" THEN Unauthorized ELSE err

\* Mutant: every store error is reported as Unauthorized.
propagate_unauthorized(err) == Unauthorized

\* The ? operator on a store's Result: the store's error is the handler's
\* error (both are ServiceError, so From converts nothing).
propagate(err) == err

\* Mutant: the result of the comparison is ignored.
passwords_match_always(password, found_password) == TRUE

\* The comparison of login, lines 122-126: does login go on to load the user?
passwords_match(password, found_password) == check_password(password, found_password)

\* Mutant: the session's name is filled from the wrong field.
logged_in_user_session_swapped(user, user_public_key) ==
    [user_id |-> user.id,
     user_email |-> user.email,
     user_name |-> user.email,
     user_public_key |-> user_public_key,
     user_avatar_url |-> user.avatar_url]

\* The UserSession login assembles, lines 138-144.
logged_in_user_session(user, user_public_key) ==
    [user_id |-> user.id,
     user_email |-> user.email,
     user_name |-> user.name,
     user_public_key |-> user_public_key,
     user_avatar_url |-> user.avatar_url]

\* login up to the answer of find_password_by_email, lines 115-120: the
\* result is the store's answer, before the ? looks at it.
login_find_password(self, user_store, email, fault) ==
    LET fallback_user == some_if_true(IsNone(self.user_repository), DefaultRepository)
        self1 == [self EXCEPT !.user_repository =
                      user_repository(self.user_repository, fallback_user)]
        users_h == Unwrap(self1.user_repository)
        found_password == find_password_by_email(user_store, email, fault)
    IN
    Outcome(found_password, self1,
            Constructed("user_repository", fallback_user)
            \o << Call("user_repository", "find_password_by_email", users_h,
                       <<email>>, found_password) >>)

\* login from the answer of find_password_by_email on, lines 120-147, against
\* the stores as they are when it goes on.
login_with_password(self1, log1, found_password, user_store, key_store, email, password, faults) ==
    IF ~found_password.ok THEN Outcome(Err(propagate(found_password.err)), self1, log1)
    ELSE
    LET hashed == Unwrap(found_password.value)
        matches == passwords_match(password, hashed)
        log2 == Append(log1, Call("password_util", "check_password", NoHandle,
                                  <<password, hashed>>, Ok(matches)))
    IN
    IF ~matches THEN Outcome(Err(Unauthorized), self1, log2)
    ELSE
    LET self2 == [self1 EXCEPT !.user_repository =
                      user_repository(self1.user_repository, None)]
        found_user == find_by_email(user_store, email, faults.user)
        log3 == Append(log2, Call("user_repository", "find_by_email",
                                  Unwrap(self2.user_repository), <<email>>, found_user))
    IN
    IF ~found_user.ok THEN Outcome(Err(propagate(found_user.err)), self2, log3)
    ELSE
    LET user == Unwrap(found_user.value)
        fallback_key == some_if_true(IsNone(self2.user_key_repository), DefaultRepository)
        self3 == [self2 EXCEPT !.user_key_repository =
                      user_key_repository(self2.user_key_repository, fallback_key)]
        found_key == find_by_user_id(key_store, user.id, faults.key)
        log4 == log3 \o Constructed("user_key_repository", fallback_key)
                \o << Call("user_key_repository", "find_by_user_id",
                           Unwrap(self3.user_key_repository), <<user.id>>, found_key) >>
    IN
    IF ~found_key.ok THEN Outcome(Err(propagate(found_key.err)), self3, log4)
    ELSE
    Outcome(Ok(logged_in_user_session(user, Unwrap(found_key.value).public_key)),
            self3, log4)

\* AuthService::login.  faults says which of the three lookups fail in the store.
login(self, user_store, key_store, email, password, faults) ==
    LET first == login_find_password(self, user_store, email, faults.password) IN
    login_with_password(first.self, first.calls, first.result,
                        user_store, key_store, email, password, faults)

\* Mutant: a missing session is reported as a missing user.
no_user_session_not_found == Err(get_service_error(NotFound("user")))

\* Mutant: the session is rewritten from the prior session alone.
refreshed_fields_stale(user_session, user) ==
    << user_session.user_id, user_session.user_email, user_session.user_name,
       user_session.user_public_key, user_session.user_avatar_url >>

\* What refresh_user_session returns when the session context holds no
\* session, lines 179-181.
no_user_session == Err(get_service_error(Unauthorized))

\* The arguments refresh_user_session hands to set_session, lines 165-172.
refreshed_fields(user_session, user) ==
    << user_session.user_id, user_session.user_email, user.name,
       user_session.user_public_key, user.avatar_url >>

\* Mutant: a failed lookup also drops the session from the context.
refresh_user_session_dropping(self, ctx, user_store, fault) ==
    LET user_session == get_session(ctx)
        log0 == << Call("session_util", "get_session", NoHandle, <<>>, user_session) >>
    IN
    IF IsNone(user_session)
    THEN [session |-> ctx] @@ Outcome(no_user_session, self, log0)
    ELSE
    LET prior == Unwrap(user_session)
        fallback_user == some_if_true(IsNone(self.user_repository), DefaultRepository)
        self1 == [self EXCEPT !.user_repository =
                      user_repository(self.user_repository, fallback_user)]
        found_user == find_by_id(user_store, prior.user_id, fault)
        log1 == log0 \o Constructed("user_repository", fallback_user)
                \o << Call("user_repository", "find_by_id",
                           Unwrap(self1.user_repository), <<prior.user_id>>, found_user) >>
    IN
    IF ~found_user.ok
    THEN [session |-> None] @@ Outcome(Err(propagate(found_user.err)), self1, log1)
    ELSE
    LET user == Unwrap(found_user.value)
        fields == refreshed_fields(prior, user)
        ctx1 == set_session(ctx, fields[1], fields[2], fields[3], fields[4], fields[5])
        refreshed == get_session(ctx1)
        log2 == log1
                \o << Call("session_util", "set_session", NoHandle, fields, Ok(TRUE)),
                      Call("session_util", "get_session", NoHandle, <<>>, refreshed) >>
    IN
    IF IsSome(refreshed)
    THEN [session |-> ctx1] @@ Outcome(Ok(Unwrap(refreshed)), self1, log2)
    ELSE [session |-> ctx1] @@ Outcome(Err(get_service_error(Unauthorized)), self1, log2)

\* AuthService::refresh_user_session; the outcome also carries the session
\* context as the call leaves it.
refresh_user_session(self, ctx, user_store, fault) ==
    LET user_session == get_session(ctx)
        log0 == << Call("session_util", "get_session", NoHandle, <<>>, user_session) >>
    IN
    IF IsNone(user_session)
    THEN [session |-> ctx] @@ Outcome(no_user_session, self, log0)
    ELSE
    LET prior == Unwrap(user_session)
        fallback_user == some_if_true(IsNone(self.user_repository), DefaultRepository)
        self1 == [self EXCEPT !.user_repository =
                      user_repository(self.user_repository, fallback_user)]
        found_user == find_by_id(user_store, prior.user_id, fault)
        log1 == log0 \o Constructed("user_repository", fallback_user)
                \o << Call("user_repository", "find_by_id",
                           Unwrap(self1.user_repository), <<prior.user_id>>, found_user) >>
    IN
    IF ~found_user.ok
    THEN [session |-> ctx] @@ Outcome(Err(propagate(found_user.err)), self1, log1)
    ELSE
    LET user == Unwrap(found_user.value)
        fields == refreshed_fields(prior, user)
        ctx1 == set_session(ctx, fields[1], fields[2], fields[3], fields[4], fields[5])
        refreshed == get_session(ctx1)
        log2 == log1
                \o << Call("session_util", "set_session", NoHandle, fields, Ok(TRUE)),
                      Call("session_util", "get_session", NoHandle, <<>>, refreshed) >>
    IN
    IF IsSome(refreshed)
    THEN [session |-> ctx1] @@ Outcome(Ok(Unwrap(refreshed)), self1, log2)
    ELSE [session |-> ctx1] @@ Outcome(Err(get_service_error(Unauthorized)), self1, log2)

\* The strings a call generates, for each seed it may start from (computed
\* once: a table of what the three generating expressions return).
\* The pin of a sign-up token: line 200.
Pins == [seed \in Seeds |-> take(seed, 0, PinLen)]

\* Mutant: one character short.
generate_pin_short(seed) == take(seed, 0, PinLen - 1)

generate_pin(seed) == Pins[seed]

\* The id and the temporary password of a password token: lines 244-245, two
\* runs of draws from the same thread-local generator.
TokenIds == [seed \in Seeds |-> take(seed, 0, TokenIdLen)]

generate_token_id(seed) == TokenIds[seed]

TokenPasswords == [seed \in Seeds |-> take(seed, TokenIdLen, TokenPasswordLen)]

generate_token_password(seed) == TokenPasswords[seed]

\* The body of the sign-up email (format! with token.name and token.pin).
sign_up_body(name, pin) ==
    << "Hello ", name,
       " :)\n\nYou've joined Darim.\n\nPlease visit the link to finish the sign up processs:\n",
       pin >>

\* The body of the password email (format! with token.password and token.id).
password_body(password, id) ==
    << "Hello :)\n\nPlease copy the temporary password:\n", password,
       "\n\nand visit the link to reset your password:\n", id >>

\* Mutant: the password is not validated.
any_blank_but_password(name, email, password) ==
    is_empty(trim(name)) \/ is_empty(trim(email))

\* The validation of set_sign_up_token: line 196.
any_blank(name, email, password) ==
    is_empty(trim(name)) \/ is_empty(trim(email)) \/ is_empty(trim(password))

\* Mutant: a failure of the email sender is returned to the caller.
best_effort_strict(result, sent) == IF sent.ok THEN Ok(result) ELSE Err(sent.err)

\* What the two token handlers return once save has answered Ok(result) and
\* send_email has answered sent: `let _ = send_email(..); Ok(result)`.
best_effort(result, sent) == Ok(result)

\* Mutant: the token keeps the trimmed name and the password as typed.
sign_up_token_plain(pin, name, email, password, hashed_password, avatar_url) ==
    [pin |-> pin, name |-> trim(name), email |-> email,
     password |-> password, avatar_url |-> avatar_url]

\* The SignUpToken set_sign_up_token assembles, lines 203-209.
sign_up_token(pin, name, email, password, hashed_password, avatar_url) ==
    [pin |-> pin, name |-> name, email |-> email,
     password |-> hashed_password, avatar_url |-> avatar_url]

\* AuthService::set_sign_up_token; the outcome also carries the Sign-Up Token
\* Store as the call leaves it.
set_sign_up_token(self, store, name, email, password, avatar_url, seed, save_outcome, send_outcome) ==
    IF any_blank(name, email, password)
    THEN [store |-> store] @@ Outcome(Err(get_service_error(InvalidArgument)), self, <<>>)
    ELSE
    LET pin == generate_pin(seed)
        hashed_password == get_hashed_password(password)
        log0 == << Call("password_util", "get_hashed_password", NoHandle,
                        <<password>>, Ok(hashed_password)) >>
        token == sign_up_token(pin, name, email, password, hashed_password, avatar_url)
        serialized_token == to_string(token)
    IN
    IF ~serialized_token.ok
    THEN [store |-> store] @@ Outcome(Err(get_service_error(InvalidFormat)), self, log0)
    ELSE
    LET fallback_repository ==
            some_if_true(IsNone(self.sign_up_token_repository), DefaultRepository)
        self1 == [self EXCEPT !.sign_up_token_repository =
                      sign_up_token_repository(self.sign_up_token_repository,
                                               fallback_repository)]
        handle == Unwrap(self1.sign_up_token_repository)
        entry == Unwrap(serialized_token.value)
        result == save(save_outcome)
        log1 == log0 \o Constructed("sign_up_token_repository", fallback_repository)
                \o << Call("sign_up_token_repository", "save", handle, <<entry>>, result) >>
        store1 == saved(store, entry, save_outcome)
    IN
    IF ~result.ok THEN [store |-> store1] @@ Outcome(Err(propagate(result.err)), self1, log1)
    ELSE
    LET sent == send_email(send_outcome)
        log2 == Append(log1, Call("email_util", "send_email", NoHandle,
                                  <<token.email, "Welcome to Darim",
                                    sign_up_body(token.name, token.pin)>>, sent))
    IN [store |-> store1] @@ Outcome(best_effort(Unwrap(result.value), sent), self1, log2)

\* AuthService::set_password_token; the outcome also carries the
\* Password-Reset Token Store as the call leaves it.
set_password_token(self, user_store, store, email, seed, fault, save_outcome, send_outcome) ==
    LET fallback_user == some_if_true(IsNone(self.user_repository), DefaultRepository)
        self1 == [self EXCEPT !.user_repository =
                      user_repository(self.user_repository, fallback_user)]
        found_user == find_by_email(user_store, email, fault)
        log1 == Constructed("user_repository", fallback_user)
                \o << Call("user_repository", "find_by_email",
                           Unwrap(self1.user_repository), <<email>>, found_user) >>
    IN
    IF ~found_user.ok
    THEN [store |-> store] @@ Outcome(Err(propagate(found_user.err)), self1, log1)
    ELSE
    LET user == Unwrap(found_user.value)
        token == [id |-> generate_token_id(seed),
                  password |-> generate_token_password(seed)]
        serialized_token == to_string(token)
    IN
    IF ~serialized_token.ok
    THEN [store |-> store] @@ Outcome(Err(get_service_error(InvalidFormat)), self1, log1)
    ELSE
    LET fallback_repository ==
            some_if_true(IsNone(self1.password_token_repository),
                         PasswordTokenRepository_new(user.id))
        self2 == [self1 EXCEPT !.password_token_repository =
                      password_token_repository(self1.password_token_repository,
                                                fallback_repository)]
        handle == Unwrap(self2.password_token_repository)
        entry == Unwrap(serialized_token.value)
        result == save(save_outcome)
        log2 == log1 \o Constructed("password_token_repository", fallback_repository)
                \o << Call("password_token_repository", "save", handle, <<entry>>, result) >>
        store1 == saved(store, [scope |-> handle.scope, token |-> entry], save_outcome)
    IN
    IF ~result.ok THEN [store |-> store1] @@ Outcome(Err(propagate(result.err)), self2, log2)
    ELSE
    LET sent == send_email(send_outcome)
        log3 == Append(log2, Call("email_util", "send_email", NoHandle,
                                  <<email, "Please reset your password",
                                    password_body(token.password, token.id)>>, sent))
    IN [store |-> store1] @@ Outcome(best_effort(Unwrap(result.value), sent), self2, log3)

\* -------------------------------------------------------------------- state
VARIABLES
    users,            \* User Store: the User records
    keys,             \* User-Key Store: the UserKey records
    session,          \* session context: Option<UserSession>
    self,             \* the AuthService instance: its four Option<Repository> fields
    sign_up_tokens,   \* Sign-Up Token Store: the serialized tokens it holds
    password_tokens,  \* Password-Reset Token Stores: [scope, token] they hold
    op,               \* the handler that has just returned ("idle": none)
    args,             \* its arguments
    result,           \* its return value
    calls             \* the calls it made on its collaborators, in order

vars == << users, keys, session, self, sign_up_tokens, password_tokens,
           op, args, result, calls >>

Profiles == {[name |-> <<"n">>, avatar_url |-> None],
             [name |-> <<"o">>, avatar_url |-> Some(<<"u">>)]}

InitUsers ==
    { [id |-> 1, email |-> EmailA, name |-> <<"n">>,
       password |-> get_hashed_password(<<"p">>), avatar_url |-> None],
      [id |-> 2, email |-> EmailB, name |-> <<"o">>,
       password |-> get_hashed_password(<<"q">>), avatar_url |-> Some(<<"u">>)] }

InitKeys ==
    { [user_id |-> 1, public_key |-> <<"k", "1">>],
      [user_id |-> 2, public_key |-> <<"k", "2">>] }

NoArgs == [name |-> <<>>, email |-> <<>>, password |-> <<>>, avatar_url |-> None]
NoResult == [ok |-> FALSE, value |-> None, err |-> NoError]

\* No request is in progress.
Idle == op' = "idle" /\ args' = NoArgs /\ result' = NoResult /\ calls' = <<>>

Init ==
    /\ users = InitUsers
    /\ keys = InitKeys
    /\ session = None
    /\ self \in {new, new_with_repository(SuppliedRepository, SuppliedRepository,
                                          SuppliedRepository, SuppliedRepository)}
    /\ sign_up_tokens = {}
    /\ password_tokens = {}
    /\ op = "idle" /\ args = NoArgs /\ result = NoResult /\ calls = <<>>

Faults == [password : BOOLEAN, user : BOOLEAN, key : BOOLEAN]

\* The answers of save and of send_email in one call; send is only asked for
\* after save has answered without error.
TokenEnvs == {e \in SaveOutcomes \X SendOutcomes : e[1] = "error" => e[2] = "sent"}
FirstEnv == <<"saved", "sent">>

\* ------------------------------------------------------------------ actions
Login ==
    \E email \in Emails, password \in Passwords, faults \in Faults :
        LET out == login(self, users, keys, email, password, faults) IN
        /\ op = "idle"
        /\ op' = "login"
        /\ args' = [NoArgs EXCEPT !.email = email, !.password = password]
        /\ result' = out.result
        /\ calls' = out.calls
        /\ self' = out.self
        /\ UNCHANGED << users, keys, session, sign_up_tokens, password_tokens >>

RefreshUserSession ==
    \E fault \in BOOLEAN :
        LET out == refresh_user_session(self, session, users, fault) IN
        /\ op = "idle"
        /\ op' = "refresh_user_session"
        /\ args' = NoArgs
        /\ result' = out.result
        /\ calls' = out.calls
        /\ self' = out.self
        /\ session' = out.session
        /\ UNCHANGED << users, keys, sign_up_tokens, password_tokens >>

SetSignUpToken ==
    \E name \in TextArgs, email \in SignUpEmails, password \in SignUpPasswords,
       avatar_url \in AvatarUrls, seed \in Seeds, env \in TokenEnvs :
        LET out == set_sign_up_token(self, sign_up_tokens, name, email, password,
                                     avatar_url, seed, env[1], env[2]) IN
        /\ op = "idle"
        \* a call that draws nothing and asks nothing is enumerated once
        /\ any_blank(name, email, password) => seed = 0 /\ env = FirstEnv
        /\ Cardinality(out.store) + Cardinality(password_tokens) <= MaxSaved
        /\ op' = "set_sign_up_token"
        /\ args' = [name |-> name, email |-> email, password |-> password,
                    avatar_url |-> avatar_url]
        /\ result' = out.result
        /\ calls' = out.calls
        /\ self' = out.self
        /\ sign_up_tokens' = out.store
        /\ UNCHANGED << users, keys, session, password_tokens >>

SetPasswordToken ==
    \E email \in Emails, seed \in Seeds, fault \in BOOLEAN, env \in TokenEnvs :
        LET out == set_password_token(self, users, password_tokens, email, seed,
                                      fault, env[1], env[2]) IN
        /\ op = "idle"
        \* a call that draws nothing and asks nothing is enumerated once
        /\ (fault \/ \A u \in users : u.email # email) => seed = 0 /\ env = FirstEnv
        /\ Cardinality(sign_up_tokens) + Cardinality(out.store) <= MaxSaved
        /\ op' = "set_password_token"
        /\ args' = [NoArgs EXCEPT !.email = email]
        /\ result' = out.result
        /\ calls' = out.calls
        /\ self' = out.self
        /\ password_tokens' = out.store
        /\ UNCHANGED << users, keys, session, sign_up_tokens >>

\* The route handler installs the session login returned in the session context.
InstallSession ==
    /\ op = "login"
    /\ result.ok
    /\ session' = result.value
    /\ Idle
    /\ UNCHANGED << users, keys, self, sign_up_tokens, password_tokens >>

\* The session context loses its session (logout, expiry).
Logout ==
    /\ op = "idle"
    /\ IsSome(session)
    /\ session' = None
    /\ Idle
    /\ UNCHANGED << users, keys, self, sign_up_tokens, password_tokens >>

\* Another request changes a user's name and avatar.
UpdateUser ==
    \E u \in users, p \in Profiles :
        /\ op = "idle"
        /\ users' = (users \ {u})
                    \cup {[u EXCEPT !.name = p.name, !.avatar_url = p.avatar_url]}
        /\ users' # users
        /\ Idle
        /\ UNCHANGED << keys, session, self, sign_up_tokens, password_tokens >>

\* Another request deletes a user.
DeleteUser ==
    \E u \in users :
        /\ op = "idle"
        /\ users' = users \ {u}
        /\ Idle
        /\ UNCHANGED << keys, session, self, sign_up_tokens, password_tokens >>

\* The confirmation steps consume the tokens (or they expire).
ConsumeTokens ==
    /\ op = "idle"
    /\ sign_up_tokens # {} \/ password_tokens # {}
    /\ sign_up_tokens' = {}
    /\ password_tokens' = {}
    /\ Idle
    /\ UNCHANGED << users, keys, session, self >>

\* The next request is served by a freshly constructed AuthService.
NewService ==
    /\ op = "idle"
    /\ self # new
    /\ self' = new
    /\ Idle
    /\ UNCHANGED << users, keys, session, sign_up_tokens, password_tokens >>

\* The handler's caller turns the return value into its response: the request
\* is over.
Respond ==
    /\ op # "idle"
    /\ Idle
    /\ UNCHANGED << users, keys, session, self, sign_up_tokens, password_tokens >>

\* Sessions: login and refresh_user_session against a changing User Store.
NextSession ==
    \/ Login
    \/ RefreshUserSession
    \/ InstallSession
    \/ Logout
    \/ UpdateUser
    \/ DeleteUser
    \/ NewService
    \/ Respond

SessionSpec == Init /\ [][NextSession]_vars

\* Tokens: the two token workflows against the token stores.
NextToken ==
    \/ SetSignUpToken
    \/ SetPasswordToken
    \/ ConsumeTokens
    \/ NewService
    \/ Respond

TokenSpec == Init /\ [][NextToken]_vars

\* The request is over and the confirmation steps have consumed what it
\* persisted before the next request arrives.
Settle ==
    /\ op # "idle"
    /\ sign_up_tokens' = {}
    /\ password_tokens' = {}
    /\ Idle
    /\ UNCHANGED << users, keys, session, self >>

\* One AuthService instance serving requests of all four kinds.
NextService ==
    \/ Login
    \/ RefreshUserSession
    \/ SetSignUpToken
    \/ SetPasswordToken
    \/ InstallSession
    \/ NewService
    \/ Settle

ServiceSpec == Init /\ [][NextService]_vars

\* login has asked the User Store for the hash and has its answer.
LoginBegin ==
    \E email \in Emails, password \in Passwords, fault \in BOOLEAN :
        LET out == login_find_password(self, users, email, fault) IN
        /\ op = "idle"
        /\ op' = "login_started"
        /\ args' = [NoArgs EXCEPT !.email = email, !.password = password]
        /\ result' = NoResult
        /\ calls' = out.calls
        /\ self' = out.self
        /\ UNCHANGED << users, keys, session, sign_up_tokens, password_tokens >>

\* Another request changes a user's password while login is under way.
PasswordChangedMeanwhile ==
    \E u \in users, password \in Passwords :
        /\ op = "login_started"
        /\ users' = (users \ {u})
                    \cup {[u EXCEPT !.password = get_hashed_password(password)]}
        /\ users' # users
        /\ UNCHANGED << keys, session, self, sign_up_tokens, password_tokens,
                        op, args, result, calls >>

\* Another request deletes a user while login is under way.
UserDeletedMeanwhile ==
    \E u \in users :
        /\ op = "login_started"
        /\ users' = users \ {u}
        /\ UNCHANGED << keys, session, self, sign_up_tokens, password_tokens,
                        op, args, result, calls >>

\* login goes on from the answer it has, against the stores as they are now.
LoginEnd ==
    \E faults \in Faults :
        LET out == login_with_password(self, calls, calls[Len(calls)].output,
                                       users, keys, args.email, args.password, faults)
        IN
        /\ op = "login_started"
        /\ ~faults.password
        /\ op' = "login"
        /\ result' = out.result
        /\ calls' = out.calls
        /\ self' = out.self
        /\ UNCHANGED << users, keys, session, args, sign_up_tokens, password_tokens >>

\* login interleaved with the requests of others on the User Store.
NextRace ==
    \/ LoginBegin
    \/ PasswordChangedMeanwhile
    \/ UserDeletedMeanwhile
    \/ LoginEnd
    \/ Respond

RaceSpec == Init /\ [][NextRace]_vars

\* -------------------------------------------------------------- routes/post
\* HttpResponse::Ok / BadRequest / Unauthorized / NotFound / InternalServerError
HttpResponse(status, body) == [status |-> status, body |-> body]

\* .json(json!({ "data": result }))
data(response) == [data |-> Unwrap(response.value)]

\* .body(format!("{}", error))
body(error) == [text |-> error]

internal_server_error == [text |-> "internal server error"]

\* What post::get_list, post::create, post::delete and post::update may
\* answer: a value, or a ServiceError of any kind.
PostOutcomes ==
    {Ok(TRUE)} \cup {Err(e) : e \in {InvalidArgument, InvalidFormat, Unauthorized,
                                     NotFound(<<"p", "o", "s", "t">>), StoreError}}

PostIds == {7}
PostArgs == [user_id : UserIds, title : {<<"t">>}]

\* session_util::is_logged_in_user(&session, Some(&user_id))
is_logged_in_user(ctx, user_id) ==
    /\ IsSome(get_session(ctx))
    /\ IsSome(user_id) => Unwrap(get_session(ctx)).user_id = Unwrap(user_id)

\* GET /posts, lines 11-18.
posts(service) ==
    [response |-> IF service.ok THEN HttpResponse(200, data(service))
                  ELSE HttpResponse(500, internal_server_error),
     calls |-> << Call("post", "get_list", NoHandle, <<>>, service) >>]

\* POST /posts, lines 21-31.
create_post(post, service) ==
    [response |-> CASE service.ok -> HttpResponse(200, data(service))
                    [] service.err = InvalidArgument ->
                            HttpResponse(400, body(InvalidArgument))
                    [] OTHER -> HttpResponse(500, internal_server_error),
     calls |-> << Call("post", "create", NoHandle, <<post>>, service) >>]

\* Mutant: the NotFound arm is missing.
delete_post_without_arm(id, service) ==
    [response |-> IF service.ok THEN HttpResponse(200, data(service))
                  ELSE HttpResponse(500, internal_server_error),
     calls |-> << Call("post", "delete", NoHandle, <<id>>, service) >>]

\* DELETE /posts/{id}, lines 34-44.
delete_post(id, service) ==
    [response |-> CASE service.ok -> HttpResponse(200, data(service))
                    [] service.err.kind = "NotFound" ->
                            HttpResponse(404, body(NotFound(service.err.key)))
                    [] OTHER -> HttpResponse(500, internal_server_error),
     calls |-> << Call("post", "delete", NoHandle, <<id>>, service) >>]

\* Mutant: the update is made whoever asks.
update_post_unchecked(ctx, id, post, service) ==
    LET allowed == is_logged_in_user(ctx, Some(post.user_id))
        response == service
    IN
    [response |-> CASE response.ok -> HttpResponse(200, data(response))
                    [] response.err = Unauthorized ->
                            HttpResponse(401, body(Unauthorized))
                    [] response.err = InvalidArgument ->
                            HttpResponse(400, body(InvalidArgument))
                    [] response.err.kind = "NotFound" ->
                            HttpResponse(404, body(NotFound(response.err.key)))
                    [] OTHER -> HttpResponse(500, internal_server_error),
     calls |-> << Call("session_util", "is_logged_in_user", NoHandle,
                       <<Some(post.user_id)>>, allowed),
                  Call("post", "update", NoHandle, <<id, post>>, service) >>]

\* PATCH /posts/{id}, lines 47-72.
update_post(ctx, id, post, service) ==
    LET allowed == is_logged_in_user(ctx, Some(post.user_id))
        log0 == << Call("session_util", "is_logged_in_user", NoHandle,
                        <<Some(post.user_id)>>, allowed) >>
        response == IF allowed THEN service ELSE Err(Unauthorized)
    IN
    [response |-> CASE response.ok -> HttpResponse(200, data(response))
                    [] response.err = Unauthorized ->
                            HttpResponse(401, body(Unauthorized))
                    [] response.err = InvalidArgument ->
                            HttpResponse(400, body(InvalidArgument))
                    [] response.err.kind = "NotFound" ->
                            HttpResponse(404, body(NotFound(response.err.key)))
                    [] OTHER -> HttpResponse(500, internal_server_error),
     calls |-> IF allowed
               THEN log0 \o << Call("post", "update", NoHandle, <<id, post>>, service) >>
               ELSE log0]

Posts ==
    \E service \in PostOutcomes :
        LET out == posts(service) IN
        /\ op = "idle"
        /\ op' = "posts"
        /\ args' = NoArgs
        /\ result' = out.response
        /\ calls' = out.calls
        /\ UNCHANGED << users, keys, session, self, sign_up_tokens, password_tokens >>

CreatePost ==
    \E post \in PostArgs, service \in PostOutcomes :
        LET out == create_post(post, service) IN
        /\ op = "idle"
        /\ op' = "create_post"
        /\ args' = [id |-> 0, post |-> post]
        /\ result' = out.response
        /\ calls' = out.calls
        /\ UNCHANGED << users, keys, session, self, sign_up_tokens, password_tokens >>

DeletePost ==
    \E id \in PostIds, service \in PostOutcomes :
        LET out == delete_post(id, service) IN
        /\ op = "idle"
        /\ op' = "delete_post"
        /\ args' = [id |-> id]
        /\ result' = out.response
        /\ calls' = out.calls
        /\ UNCHANGED << users, keys, session, self, sign_up_tokens, password_tokens >>

UpdatePost ==
    \E id \in PostIds, post \in PostArgs, service \in PostOutcomes :
        LET out == update_post(session, id, post, service) IN
        /\ op = "idle"
        /\ op' = "update_post"
        /\ args' = [id |-> id, post |-> post]
        /\ result' = out.response
        /\ calls' = out.calls
        /\ UNCHANGED << users, keys, session, self, sign_up_tokens, password_tokens >>

\* The post routes, served to visitors who log in and out.
NextPost ==
    \/ Posts
    \/ CreatePost
    \/ DeletePost
    \/ UpdatePost
    \/ Login
    \/ InstallSession
    \/ Logout
    \/ Respond

PostSpec == Init /\ [][NextPost]_vars

\* ------------------------------------------------------------------- claims
StoreTargets == {"user_repository", "user_key_repository",
                 "sign_up_token_repository", "password_token_repository"}

\* The positions in the log of the calls of a method.
CallsOf(method) == {i \in DOMAIN calls : calls[i].method = method}

\* The positions of the calls on stores (constructions included).
StoreCalls == {i \in DOMAIN calls : calls[i].target \in StoreTargets}

\* A store call of the request failed for a reason of the store's own (not
\* because the entity is absent).
Faulted ==
    \E i \in StoreCalls :
        /\ calls[i].method # "new"
        /\ ~calls[i].output.ok
        /\ calls[i].output.err.kind = "StoreError"

\* C1: when the email is in the User Store and the supplied password verifies
\* against the stored hash (and the stores answer the lookups), login returns
\* Ok with a UserSession whose id, email, name and avatar are the stored
\* user's and whose public key is the one the User-Key Store holds for the
\* user's id.
C1_LoginReturnsStoredUser ==
    (/\ op = "login"
     /\ ~Faulted
     /\ \E u \in users :
            /\ u.email = args.email
            /\ check_password(args.password, u.password)
            /\ \E k \in keys : k.user_id = u.id)
    => /\ result.ok
       /\ \E u \in users, k \in keys :
            /\ u.email = args.email
            /\ k.user_id = u.id
            /\ Unwrap(result.value).user_id = u.id
            /\ Unwrap(result.value).user_email = u.email
            /\ Unwrap(result.value).user_name = u.name
            /\ Unwrap(result.value).user_avatar_url = u.avatar_url
            /\ Unwrap(result.value).user_public_key = k.public_key

\* A login with the right password for a user whose profile has been changed.
C1_Witness ==
    /\ op = "login"
    /\ result.ok
    /\ \E u \in users :
            /\ u.email = args.email
            /\ check_password(args.password, u.password)
            /\ u \notin InitUsers

\* C2: when the email is in the User Store and the supplied password does not
\* verify against the stored hash, login fails with Unauthorized and returns
\* no UserSession.
C2_LoginMismatchUnauthorized ==
    (/\ op = "login"
     /\ ~Faulted
     /\ \E u \in users :
            u.email = args.email /\ ~check_password(args.password, u.password))
    => /\ ~result.ok
       /\ result.err = Unauthorized
       /\ IsNone(result.value)

\* A login with the wrong password for an existing user.
C2_Witness ==
    /\ op = "login"
    /\ \E u \in users :
            u.email = args.email /\ ~check_password(args.password, u.password)
    /\ result.err.kind = "Unauthorized"

\* C3: when the email is not in the User Store, login fails with NotFound, the
\* error of the password-hash lookup, whatever the password, and makes no
\* password comparison, no user-record lookup and no user-key lookup.
C3_LoginAbsentNotFound ==
    (/\ op = "login"
     /\ ~Faulted
     /\ \A u \in users : u.email # args.email)
    => /\ ~result.ok
       /\ result.err.kind = "NotFound"
       /\ \E i \in CallsOf("find_password_by_email") :
            ~calls[i].output.ok /\ calls[i].output.err = result.err
       /\ CallsOf("check_password") = {}
       /\ CallsOf("find_by_email") = {}
       /\ CallsOf("find_by_user_id") = {}

\* A login for the email of a user that has been deleted.
C3_Witness ==
    /\ op = "login"
    /\ args.email = EmailA
    /\ \A u \in users : u.email # EmailA
    /\ result.err.kind = "NotFound"

\* The session the context held when refresh_user_session read it.
PriorSession == calls[1].output

\* C5: refresh_user_session called with a session context that holds no
\* UserSession fails with Unauthorized, looks nothing up in the User Store
\* and writes nothing to the session context.
C5_RefreshWithoutSession ==
    (op = "refresh_user_session" /\ IsNone(PriorSession))
    => /\ ~result.ok
       /\ result.err = Unauthorized
       /\ StoreCalls = {}
       /\ CallsOf("set_session") = {}
       /\ IsNone(session)

\* A refresh after the session context has lost the session it held.
C5_Witness ==
    /\ op = "refresh_user_session"
    /\ IsNone(PriorSession)
    /\ ~result.ok
    /\ IsSome(self.user_key_repository)

\* C6: refresh_user_session called with a prior session whose user still
\* exists (the User Store answering the lookup) returns, and leaves in the
\* session context, a UserSession whose name and avatar are the ones the User
\* Store holds for the session's user id and whose id, email and public key
\* are the prior session's.
C6_RefreshLoadsNameAndAvatar ==
    (/\ op = "refresh_user_session"
     /\ IsSome(PriorSession)
     /\ ~Faulted
     /\ \E u \in users : u.id = Unwrap(PriorSession).user_id)
    => /\ result.ok
       /\ session = result.value
       /\ \E u \in users :
            /\ u.id = Unwrap(PriorSession).user_id
            /\ Unwrap(result.value).user_name = u.name
            /\ Unwrap(result.value).user_avatar_url = u.avatar_url
       /\ Unwrap(result.value).user_id = Unwrap(PriorSession).user_id
       /\ Unwrap(result.value).user_email = Unwrap(PriorSession).user_email
       /\ Unwrap(result.value).user_public_key = Unwrap(PriorSession).user_public_key

\* A refresh that changes the session: the user was updated since login.
C6_Witness ==
    /\ op = "refresh_user_session"
    /\ result.ok
    /\ Unwrap(result.value).user_name # Unwrap(PriorSession).user_name
    /\ Unwrap(result.value).user_avatar_url # Unwrap(PriorSession).user_avatar_url

Blank(s) == \A i \in DOMAIN s : s[i] \in Whitespace

\* C4: when the name, the email or the password is empty or whitespace-only,
\* set_sign_up_token fails with InvalidArgument, constructs no store, calls no
\* store and attempts no email.
C4_BlankArgumentRejected ==
    (/\ op = "set_sign_up_token"
     /\ Blank(args.name) \/ Blank(args.email) \/ Blank(args.password))
    => /\ ~result.ok
       /\ result.err = InvalidArgument
       /\ StoreCalls = {}
       /\ CallsOf("send_email") = {}

\* A sign-up whose password alone is whitespace, on a service that has no
\* Sign-Up Token Store yet.
C4_Witness ==
    /\ op = "set_sign_up_token"
    /\ ~Blank(args.name) /\ ~Blank(args.email)
    /\ Blank(args.password) /\ args.password # <<>>
    /\ result.err.kind = "InvalidArgument"
    /\ IsNone(self.sign_up_token_repository)

\* C8: when the email is not in the User Store, set_password_token fails with
\* NotFound, the Password-Reset Token Stores hold what they held before, no
\* save is called and no email is attempted.
C8_PasswordTokenAbsentEmail ==
    [][(/\ op' = "set_password_token"
        /\ ~Faulted'
        /\ \A u \in users' : u.email # args'.email)
       => /\ ~result'.ok
          /\ result'.err.kind = "NotFound"
          /\ password_tokens' = password_tokens
          /\ \A i \in DOMAIN calls' :
                /\ calls'[i].method \notin {"save", "send_email"}
                /\ calls'[i].target # "password_token_repository"]_vars

\* A password token asked for an unknown email while a store holds a token.
C8_Witness ==
    /\ op = "set_password_token"
    /\ \A u \in users : u.email # args.email
    /\ result.err.kind = "NotFound"
    /\ password_tokens # {}

TokenOps == {"set_sign_up_token", "set_password_token"}

\* C9: in set_sign_up_token and set_password_token the answer of the email
\* sender never shows in the result: whenever an email was attempted, whatever
\* the sender answered, the handler returns Ok with the indicator save
\* returned, and no handler returns an error of the sender.
C9_SendNeverAffectsResult ==
    (op \in TokenOps)
    => /\ result.err.kind # "SendError"
       /\ CallsOf("send_email") # {}
          => /\ result.ok
             /\ \E i \in CallsOf("save") :
                    calls[i].output.ok /\ result.value = calls[i].output.value

\* The sender failed after save reported false, and the call returned Ok(false).
C9_Witness ==
    /\ op \in TokenOps
    /\ \E i \in CallsOf("send_email") :
            ~calls[i].output.ok /\ calls[i].output.err.kind = "SendError"
    /\ result.ok
    /\ result.value = Some(FALSE)

\* char::is_ascii_alphanumeric
AsciiAlphanumeric ==
    {"0", "1", "2", "3", "4", "5", "6", "7", "8", "9"}
    \cup {"a", "b", "c", "d", "e", "f", "g", "h", "i", "j", "k", "l", "m",
          "n", "o", "p", "q", "r", "s", "t", "u", "v", "w", "x", "y", "z"}
    \cup {"A", "B", "C", "D", "E", "F", "G", "H", "I", "J", "K", "L", "M",
          "N", "O", "P", "Q", "R", "S", "T", "U", "V", "W", "X", "Y", "Z"}

\* A string of exactly n alphanumeric characters.
Alphanumeric(s, n) == Len(s) = n /\ \A i \in 1..Len(s) : s[i] \in AsciiAlphanumeric

\* C10: the pin of every token set_sign_up_token hands to save (and puts in
\* its email) has exactly 8 characters, the id of every token
\* set_password_token hands to save (and puts in its email) exactly 32 and
\* its temporary password exactly 512, all of them alphanumeric.
C10_GeneratedLengths ==
    /\ op = "set_sign_up_token"
       => /\ \A i \in CallsOf("save") : Alphanumeric(calls[i].input[1].json.pin, 8)
          /\ \A i \in CallsOf("send_email") : Alphanumeric(calls[i].input[3][4], 8)
    /\ op = "set_password_token"
       => /\ \A i \in CallsOf("save") :
                /\ Alphanumeric(calls[i].input[1].json.id, 32)
                /\ Alphanumeric(calls[i].input[1].json.password, 512)
          /\ \A i \in CallsOf("send_email") :
                /\ Alphanumeric(calls[i].input[3][4], 32)
                /\ Alphanumeric(calls[i].input[3][2], 512)

\* A sign-up token was saved and its email attempted.
C10_Witness ==
    /\ op = "set_sign_up_token"
    /\ CallsOf("save") # {}
    /\ CallsOf("send_email") # {}
    /\ sign_up_tokens # {}

\* The id of the user the User Store holds for the email of the call.
UserIdOf(email) == (CHOOSE u \in users : u.email = email).id

\* C11: every PasswordToken set_password_token hands to save goes through a
\* Password-Reset Token Store that was constructed for (is scoped to) the id
\* of the user found for the email of that same call, whatever calls the
\* instance served before.
C11_TokenSavedUnderItsUser ==
    (op = "set_password_token")
    => \A i \in CallsOf("save") :
            calls[i].handle.kind = "default"
            => calls[i].handle.scope = UserIdOf(args.email)

\* C12: set_sign_up_token attempts its email only after save has returned
\* without error and reported true.
C12_SendOnlyAfterSaved ==
    (op = "set_sign_up_token")
    => \A j \in CallsOf("send_email") :
            \E i \in CallsOf("save") : i < j /\ calls[i].output = Ok(TRUE)

\* C15: whenever set_sign_up_token persists a token, the persisted token has
\* the name, the email and the avatar_url as supplied, a password field that
\* is the hash of the supplied password and not the password itself, and the
\* pin of the email the same call attempts, which goes to the supplied email.
C15_PersistedSignUpToken ==
    (op = "set_sign_up_token")
    => \A i \in CallsOf("save") :
            calls[i].output = Ok(TRUE)
            => LET token == calls[i].input[1].json IN
               /\ calls[i].input[1] \in sign_up_tokens
               /\ token.name = args.name
               /\ token.email = args.email
               /\ token.avatar_url = args.avatar_url
               /\ token.password = get_hashed_password(args.password)
               /\ token.password # args.password
               /\ \E j \in CallsOf("send_email") :
                    /\ j > i
                    /\ calls[j].input[1] = args.email
                    /\ calls[j].input[3][4] = token.pin
               /\ \A j \in CallsOf("send_email") :
                    /\ calls[j].input[1] = args.email
                    /\ calls[j].input[3][4] = token.pin

\* A token with an avatar was persisted and the sender then failed.
C15_Witness ==
    /\ op = "set_sign_up_token"
    /\ IsSome(args.avatar_url)
    /\ \E i \in CallsOf("save") : calls[i].output = Ok(TRUE)
    /\ \E j \in CallsOf("send_email") : ~calls[j].output.ok
    /\ sign_up_tokens # {}

\* The positions, in the log of the step's handler, of the constructions of a
\* store and of the calls on it.
NewsOf(log, kind) ==
    {i \in DOMAIN log : log[i].target = kind /\ log[i].method = "new"}

UsesOf(log, kind) ==
    {i \in DOMAIN log : log[i].target = kind /\ log[i].method # "new"}

\* C13: in every handler call on an instance and for each of the four stores,
\* a default store is constructed only if the field is None and the handler
\* calls the store right away; a field that is Some keeps its content (so a
\* store is constructed at most once in the instance's lifetime and a store
\* supplied at construction is never replaced); and every call on the store
\* goes through the handle the field holds.
C13_LazyStores ==
    [][(op' # "idle")
       => \A kind \in StoreTargets :
            /\ Cardinality(NewsOf(calls', kind)) <= 1
            /\ \A i \in NewsOf(calls', kind) :
                    /\ IsNone(self[kind])
                    /\ (i + 1) \in UsesOf(calls', kind)
                    /\ self'[kind] = Some(calls'[i].handle)
            /\ IsSome(self[kind]) => self'[kind] = self[kind]
            /\ (IsNone(self[kind]) /\ NewsOf(calls', kind) = {}) => IsNone(self'[kind])
            /\ \A i \in UsesOf(calls', kind) :
                    /\ IsSome(self'[kind])
                    /\ calls'[i].handle = Unwrap(self'[kind])]_vars

\* A password token saved through the store an earlier call constructed.
C13_Witness ==
    /\ op = "set_password_token"
    /\ NewsOf(calls, "password_token_repository") = {}
    /\ NewsOf(calls, "user_repository") = {}
    /\ \E i \in UsesOf(calls, "password_token_repository") :
            calls[i].handle.kind = "default"

HandlerOps == {"login", "refresh_user_session", "set_sign_up_token", "set_password_token"}

\* C14: within one call of a handler no store method is called twice, and a
\* store call that returns an error is the last thing the handler does: it
\* returns that error, with no store call, session write or email after it.
C14_NoRetry ==
    (op \in HandlerOps)
    => /\ \A i, j \in StoreCalls :
            (/\ calls[i].target = calls[j].target
             /\ calls[i].method = calls[j].method) => i = j
       /\ \A i \in StoreCalls :
            (calls[i].method # "new" /\ ~calls[i].output.ok)
            => /\ i = Len(calls)
               /\ ~result.ok
               /\ result.err = calls[i].output.err

\* login's third lookup failed in the store, after two that succeeded.
C14_Witness ==
    /\ op = "login"
    /\ \E i \in CallsOf("find_by_user_id") : calls[i].output = Err(StoreError)
    /\ result = Err(StoreError)

PostOps == {"posts", "create_post", "delete_post", "update_post"}

\* The session context names the user the update is made for.
SessionMatches(user_id) == IsSome(session) /\ Unwrap(session).user_id = user_id

\* C16: update_post calls the post update service only when the session
\* context holds the session of the user named by args.user_id; otherwise
\* the service is not called and the response is 401.
C16_UpdateOnlyForSessionUser ==
    (op = "update_post")
    => /\ CallsOf("update") # {} => SessionMatches(args.post.user_id)
       /\ ~SessionMatches(args.post.user_id)
            => /\ CallsOf("update") = {}
               /\ result.status = 401

\* Somebody logged in asks for an update in another user's name.
C16_Witness ==
    /\ op = "update_post"
    /\ IsSome(session)
    /\ Unwrap(session).user_id # args.post.user_id
    /\ result.status = 401

\* The response the error taxonomy gives an error kind.
StatusOf(err) ==
    CASE err.kind = "InvalidArgument" -> 400
      [] err.kind = "Unauthorized" -> 401
      [] err.kind = "NotFound" -> 404
      [] OTHER -> 500

\* C17: every post route handler answers a service error with the response
\* of its kind: InvalidArgument 400, Unauthorized 401, NotFound 404, any
\* other error 500.
C17_ErrorsByKind ==
    (op \in PostOps)
    => \A i \in DOMAIN calls :
            (calls[i].target = "post" /\ ~calls[i].output.ok)
            => result.status = StatusOf(calls[i].output.err)


\* The error a post service answered the request with, if it did.
ServiceErrors ==
    {calls[i].output.err : i \in {j \in DOMAIN calls : calls[j].target = "post"
                                                       /\ ~calls[j].output.ok}}

\* C17 as amended: update_post answers a service error with the response of
\* its kind (400, 401, 404, otherwise 500); create_post answers
\* InvalidArgument with 400 and any other error with 500; delete_post answers
\* NotFound with 404 and any other error with 500; posts answers every error
\* with 500.
C17_ErrorsByHandler ==
    \A err \in (IF op \in PostOps THEN ServiceErrors ELSE {}) :
        /\ op = "update_post" => result.status = StatusOf(err)
        /\ op = "create_post"
            => result.status = (IF err.kind = "InvalidArgument" THEN 400 ELSE 500)
        /\ op = "delete_post"
            => /\ result.status = (IF err.kind = "NotFound" THEN 404 ELSE 500)
               /\ err.kind = "NotFound" => result.body = [text |-> err]
        /\ op = "posts" => result.status = 500

\* delete_post answers 500 when the service says Unauthorized.
C17_Witness ==
    /\ op = "delete_post"
    /\ Unauthorized \in ServiceErrors
    /\ result.status = 500


\* C18: a call of refresh_user_session that fails leaves the session context
\* as it found it, and set_session is called only after find_by_id has
\* returned a user.
C18_FailedRefreshKeepsSession ==
    [][(op' = "refresh_user_session")
       => /\ ~result'.ok
                => /\ session' = session
                   /\ \A j \in DOMAIN calls' : calls'[j].method # "set_session"
          /\ \A j \in DOMAIN calls' :
                calls'[j].method = "set_session"
                => \E i \in 1..(j - 1) : /\ calls'[i].method = "find_by_id"
                                         /\ calls'[i].output.ok]_vars

\* A refresh that failed in the User Store while a session was present.
C18_Witness ==
    /\ op = "refresh_user_session"
    /\ ~result.ok
    /\ IsSome(session)
    /\ \E i \in CallsOf("find_by_id") : ~calls[i].output.ok

\* The comparison of the call came out true.
ComparisonSucceeded ==
    \E i \in CallsOf("check_password") : calls[i].output = Ok(TRUE)

\* C19: under any interleaving with updates and deletions of the same user,
\* login returns Ok only with the UserSession of a user record whose stored
\* hash, as read with that record, verifies against the supplied password,
\* and login never fails with NotFound once the comparison has succeeded.
C19_LoginAtomic ==
    (op = "login")
    => /\ result.ok
            => \E j \in CallsOf("find_by_email") :
                    /\ calls[j].output.ok
                    /\ Unwrap(calls[j].output.value).id = Unwrap(result.value).user_id
                    /\ check_password(args.password, Unwrap(calls[j].output.value).password)
       /\ ComparisonSucceeded => ~(~result.ok /\ result.err.kind = "NotFound")

\* C19 as amended: login returns Ok only when the hash find_password_by_email
\* returned verifies against the supplied password, and then with the
\* UserSession of the record find_by_email returned afterwards, whatever hash
\* that record holds; once the comparison has succeeded login fails with
\* NotFound only when its last lookup found no user or no key.
C19_LoginReadsTwice ==
    (op = "login")
    => /\ result.ok
            => \E i \in CallsOf("find_password_by_email"), j \in CallsOf("find_by_email") :
                    /\ i < j
                    /\ calls[i].output.ok
                    /\ check_password(args.password, Unwrap(calls[i].output.value))
                    /\ calls[j].output.ok
                    /\ Unwrap(calls[j].output.value).id = Unwrap(result.value).user_id
                    /\ Unwrap(calls[j].output.value).email = args.email
       /\ (ComparisonSucceeded /\ ~result.ok /\ result.err.kind = "NotFound")
            => /\ calls[Len(calls)].method \in {"find_by_email", "find_by_user_id"}
               /\ calls[Len(calls)].output = Err(result.err)

\* login succeeded although the password was changed after the hash was read.
C19_Witness ==
    /\ op = "login"
    /\ result.ok
    /\ \E j \in CallsOf("find_by_email") :
            ~check_password(args.password, Unwrap(calls[j].output.value).password)
====
